---- MODULE Spec2Model ----
(***************************************************************************)
(* A model of src/ncbi_util.py: the NCBI E-utilities client (class NCBI).  *)
(*                                                                         *)
(* Time is counted in ticks of a tenth of a second.  A Python exception is *)
(* a record [type, msg, attempt]: its class, the text it carries, and (for *)
(* an exception raised by requests.get) the GET attempt that raised it.    *)
(* A string is a sequence of characters.                                   *)
(***************************************************************************)
EXTENDS Integers, Sequences, FiniteSets, TLC

VARIABLES
    self,          \* the NCBI instance: [alive, email, tool]
    ctor,          \* arguments and outcome of NCBI(email, tool)
    pc,            \* make_req: position in the body of the current call
    i,             \* make_req: loop variable of `for i in range(...)`
    max_attempts,  \* make_req: argument
    timeout,       \* make_req: argument (seconds)
    e,             \* make_req: the exception bound by `except ... as e`
    trace,         \* make_req: effects of the current call, in order
    elapsed,       \* make_req: ticks spent inside the current call
    req_out,       \* make_req: outcome of the current call
    oti,           \* organism_to_id frame
    etd,           \* etree_to_dict frame
    otd,           \* organism_to_dict frame (and the calls made so far)
    stdout         \* number of 'Starting organism:' lines printed

vars == <<self, ctor, pc, i, max_attempts, timeout, e, trace, elapsed,
          req_out, oti, etd, otd, stdout>>

reqVars == <<pc, i, max_attempts, timeout, e, trace, elapsed, req_out>>

restVars == <<self, ctor, oti, etd, otd, stdout>>

-----------------------------------------------------------------------------
(* Bounds of the model *)

MaxAttempts == 2      \* make_req is called with max_attempts in -1..MaxAttempts
MaxTimeout == 2       \* ... and timeout in 1..MaxTimeout seconds

(* Program constants *)

SLEEP_INTERVAL == 5           \* ticks: SLEEP_INTERVAL = .5
DEFAULT_MAX_ATTEMPTS == 3     \* max_attempts: int = 3
DEFAULT_TIMEOUT == 10         \* timeout: int = 10

\* One second in ticks: SLEEP_INTERVAL is half a second.
Second == 2 * SLEEP_INTERVAL

-----------------------------------------------------------------------------
(* Outcomes and exceptions *)

NoExc == [type |-> "", msg |-> "", attempt |-> 0]

Exc(type, msg) == [type |-> type, msg |-> msg, attempt |-> 0]

\* the classes of requests.RequestException that requests.get and
\* raise_for_status raise
TransportFailures == {"ConnectionError", "Timeout", "HTTPError"}

Pending == [kind |-> "none", resp |-> 0, exc |-> NoExc]

-----------------------------------------------------------------------------
(* make_req *)

\* the loop as range(max_attempts): one iteration short
RangeEnd_Short(n) == n

\* range(max_attempts + 1): the exclusive end of the loop
RangeEnd(n) == n + 1

\* how long one requests.get may block, given timeout (seconds)
GetDurations(t) == {1, t * Second}

Ev(ev, n) == [ev |-> ev, n |-> n]

\* the frame of a call that has returned or raised is gone
LeaveMakeReq ==
    /\ pc' = "idle"
    /\ i' = 0
    /\ max_attempts' = DEFAULT_MAX_ATTEMPTS
    /\ timeout' = DEFAULT_TIMEOUT
    /\ e' = NoExc
    /\ trace' = <<>>
    /\ elapsed' = 0
    /\ req_out' = Pending

\* a call make_req(url, payload, n, t) enters the function body
EnterMakeReq(n, t) ==
    /\ pc' = "for"
    /\ i' = 0
    /\ max_attempts' = n
    /\ timeout' = t
    /\ e' = NoExc
    /\ trace' = <<>>
    /\ elapsed' = 0
    /\ req_out' = Pending

\* for i in range(max_attempts + 1): the loop takes its next value
make_req_for ==
    /\ pc = "for"
    /\ i < RangeEnd(max_attempts)
    /\ pc' = "get"
    /\ UNCHANGED <<i, max_attempts, timeout, e, trace, elapsed, req_out>>
    /\ UNCHANGED restVars

\* the loop is exhausted: raise requests.HTTPError
make_req_exhausted ==
    /\ pc = "for"
    /\ ~(i < RangeEnd(max_attempts))
    /\ pc' = "done"
    /\ req_out' = [kind |-> "raise", resp |-> 0, exc |-> Exc("HTTPError", "")]
    /\ trace' = Append(trace, Ev("raise", 0))
    /\ UNCHANGED <<i, max_attempts, timeout, e, elapsed>>
    /\ UNCHANGED restVars

\* requests.get and raise_for_status succeed
make_req_get_ok ==
    /\ pc = "get"
    /\ \E d \in GetDurations(timeout) :
         elapsed' = elapsed + d
    /\ trace' = Append(trace, Ev("get_ok", i + 1))
    /\ req_out' = [kind |-> "none", resp |-> i + 1, exc |-> NoExc]
    /\ pc' = "sleep_interval"
    /\ UNCHANGED <<i, max_attempts, timeout, e>>
    /\ UNCHANGED restVars

\* requests.get or raise_for_status raises a RequestException
make_req_get_fail ==
    /\ pc = "get"
    /\ \E d \in GetDurations(timeout) :
         elapsed' = elapsed + d
    /\ \E ty \in TransportFailures :
         e' = [type |-> ty, msg |-> "", attempt |-> i + 1]
    /\ trace' = Append(trace, Ev("get_fail", i + 1))
    /\ pc' = "except"
    /\ UNCHANGED <<i, max_attempts, timeout, req_out>>
    /\ UNCHANGED restVars

\* time.sleep(SLEEP_INTERVAL)
make_req_sleep_interval ==
    /\ pc = "sleep_interval"
    /\ elapsed' = elapsed + SLEEP_INTERVAL
    /\ trace' = Append(trace, Ev("sleep", SLEEP_INTERVAL))
    /\ pc' = "return"
    /\ UNCHANGED <<i, max_attempts, timeout, e, req_out>>
    /\ UNCHANGED restVars

\* the loop body without its return: the loop goes on after a success
make_req_return_missing ==
    /\ pc = "return"
    /\ i' = i + 1
    /\ pc' = "for"
    /\ UNCHANGED <<max_attempts, timeout, e, trace, elapsed, req_out>>
    /\ UNCHANGED restVars

\* return req
make_req_return ==
    /\ pc = "return"
    /\ req_out' = [req_out EXCEPT !.kind = "return"]
    /\ trace' = Append(trace, Ev("return", req_out.resp))
    /\ pc' = "done"
    /\ UNCHANGED <<i, max_attempts, timeout, e, elapsed>>
    /\ UNCHANGED restVars

\* the except branch with the sleep ahead of the i == max_attempts test
make_req_raise_slept ==
    /\ pc = "except"
    /\ i = max_attempts
    /\ req_out' = [kind |-> "raise", resp |-> 0, exc |-> e]
    /\ trace' = trace \o <<Ev("print", 0), Ev("sleep", Second), Ev("raise", e.attempt)>>
    /\ elapsed' = elapsed + Second
    /\ pc' = "done"
    /\ UNCHANGED <<i, max_attempts, timeout, e>>
    /\ UNCHANGED restVars

\* except: if i == max_attempts: raise e
make_req_raise ==
    /\ pc = "except"
    /\ i = max_attempts
    /\ req_out' = [kind |-> "raise", resp |-> 0, exc |-> e]
    /\ trace' = Append(trace, Ev("raise", e.attempt))
    /\ pc' = "done"
    /\ UNCHANGED <<i, max_attempts, timeout, e, elapsed>>
    /\ UNCHANGED restVars

\* the except branch without time.sleep(1)
make_req_retry_nosleep ==
    /\ pc = "except"
    /\ i # max_attempts
    /\ trace' = Append(trace, Ev("print", 0))
    /\ i' = i + 1
    /\ pc' = "for"
    /\ UNCHANGED <<max_attempts, timeout, e, elapsed, req_out>>
    /\ UNCHANGED restVars

\* except: print(...); time.sleep(1); and on to the next iteration
make_req_retry ==
    /\ pc = "except"
    /\ i # max_attempts
    /\ trace' = trace \o <<Ev("print", 0), Ev("sleep", Second)>>
    /\ elapsed' = elapsed + Second
    /\ i' = i + 1
    /\ pc' = "for"
    /\ UNCHANGED <<max_attempts, timeout, e, req_out>>
    /\ UNCHANGED restVars

make_req ==
    \/ make_req_for
    \/ make_req_exhausted
    \/ make_req_get_ok
    \/ make_req_get_fail
    \/ make_req_sleep_interval
    \/ make_req_return
    \/ make_req_raise
    \/ make_req_retry

-----------------------------------------------------------------------------
(* Strings *)

MaxStrLen == 3        \* email and tool strings have at most MaxStrLen characters

\* the characters of email and tool values: a letter, the space, and one
\* other whitespace character
ParamChars == {"a", " ", "\t"}

RECURSIVE SeqsUpTo(_, _)
SeqsUpTo(S, n) ==
    IF n = 0 THEN {<<>>}
    ELSE LET shorter == SeqsUpTo(S, n - 1)
         IN  shorter \cup {Append(s, c) : s \in {t \in shorter : Len(t) = n - 1}, c \in S}

\* str.isspace of one character
IsSpace(c) == c \in {" ", "\t"}

RECURSIVE LStrip(_)
LStrip(s) == IF s # <<>> /\ IsSpace(Head(s)) THEN LStrip(Tail(s)) ELSE s

RECURSIVE RStrip(_)
RStrip(s) ==
    IF s # <<>> /\ IsSpace(s[Len(s)]) THEN RStrip(SubSeq(s, 1, Len(s) - 1)) ELSE s

\* the test as ' ' in ncbi_param, without strip()
Strip_Identity(s) == s

\* str.strip(): leading and trailing whitespace removed
Strip(s) == RStrip(LStrip(s))

\* `c in s` for a character c
Contains(s, c) == \E k \in 1..Len(s) : s[k] = c

-----------------------------------------------------------------------------
(* check_ncbi_param and NCBI.__init__ *)

Str(s) == [type |-> "str", val |-> s]

None == [type |-> "NoneType", val |-> <<>>]

\* the values passed as email or tool: strings, and a value that is no string
ParamValues == {Str(s) : s \in SeqsUpTo(ParamChars, MaxStrLen)} \cup {None}

check_ncbi_param(ncbi_param, param_name) ==
    IF ncbi_param.type # "str" \/ Contains(Strip(ncbi_param.val), " ")
    THEN [kind |-> "raise", value |-> None,
          exc |-> Exc("ValueError", param_name)]
    ELSE [kind |-> "return", value |-> ncbi_param, exc |-> NoExc]

NoObject == [alive |-> FALSE, email |-> None, tool |-> None, return_ranks |-> "None"]

\* NCBI(email, tool, return_ranks)
NCBI_init ==
    /\ ctor.pc = "call"
    /\ LET em == check_ncbi_param(ctor.email, "email")
           to == check_ncbi_param(ctor.tool, "tool")
       IN  IF em.kind = "raise"
           THEN /\ ctor' = [ctor EXCEPT !.pc = "done", !.exc = em.exc]
                /\ UNCHANGED self
           ELSE IF to.kind = "raise"
           THEN /\ ctor' = [ctor EXCEPT !.pc = "done", !.exc = to.exc]
                /\ UNCHANGED self
           ELSE /\ ctor' = [ctor EXCEPT !.pc = "done"]
                /\ self' = [alive |-> TRUE, email |-> em.value, tool |-> to.value,
                            return_ranks |-> ctor.return_ranks]
    /\ UNCHANGED <<reqVars, oti, etd, otd, stdout>>

-----------------------------------------------------------------------------
(* str.isdigit and int *)

\* the characters of the ids the API returns: two decimal digits, a letter,
\* and a digit character that is no decimal digit (U+00B2)
IdChars == {"1", "2", "a", "SUPERSCRIPT TWO"}

IsDecimalChar(c) == c \in {"1", "2"}

\* the characters str.isdigit accepts
IsDigitChar(c) == IsDecimalChar(c) \/ c = "SUPERSCRIPT TWO"

\* str.isdigit(): non-empty and every character a digit
IsDigit(s) == s # <<>> /\ \A k \in 1..Len(s) : IsDigitChar(s[k])

DigitValue(c) == IF c = "1" THEN 1 ELSE 2

RECURSIVE DecimalValue(_)
DecimalValue(s) ==
    IF s = <<>> THEN 0
    ELSE 10 * DecimalValue(SubSeq(s, 1, Len(s) - 1)) + DigitValue(s[Len(s)])

\* int(s) of a string s: its value, or ValueError
ParseInt(s) ==
    IF s # <<>> /\ \A k \in 1..Len(s) : IsDecimalChar(s[k])
    THEN [ok |-> TRUE, val |-> DecimalValue(s)]
    ELSE [ok |-> FALSE, val |-> 0]

-----------------------------------------------------------------------------
(* organism_to_id *)

MaxIdLen == 2         \* an id string has at most MaxIdLen characters
MaxIds == 2           \* an idlist has at most MaxIds entries

IdStrings == SeqsUpTo(IdChars, MaxIdLen)

\* req.json()['esearchresult']['idlist'], a list of strings: the empty list,
\* every list of one id string, and the lists of up to MaxIds one-character ids
IdLists ==
    {<<>>} \cup {<<s>> : s \in IdStrings}
           \cup SeqsUpTo({<<c>> : c \in IdChars}, MaxIds)

Organisms == {"X", "Y"}

MsgManyIds == "Expected API to return one id, but it returned N ids instead"
MsgNoIds == "Request returned empty id_list"
MsgNotDecimal == "Expected API to return one taxon id consisting of all decimal characters"
MsgIntLiteral == "invalid literal for int() with base 10"

IdReturn(n) == [kind |-> "return", is_raw |-> FALSE, int |-> n, raw |-> <<>>, exc |-> NoExc]
IdReturnRaw(l) == [kind |-> "return", is_raw |-> TRUE, int |-> 0, raw |-> l, exc |-> NoExc]
IdRaise(x) == [kind |-> "raise", is_raw |-> FALSE, int |-> 0, raw |-> <<>>, exc |-> x]
IdPending == [kind |-> "none", is_raw |-> FALSE, int |-> 0, raw |-> <<>>, exc |-> NoExc]

\* the body of organism_to_id after id_list is read from the response
IdListOutcome(id_list, return_raw) ==
    IF return_raw THEN IdReturnRaw(id_list)
    ELSE IF Len(id_list) > 1 THEN IdRaise(Exc("ValueError", MsgManyIds))
    ELSE IF id_list = <<>> THEN IdRaise(Exc("ValueError", MsgNoIds))
    ELSE IF ~IsDigit(id_list[1]) THEN IdRaise(Exc("ValueError", MsgNotDecimal))
    ELSE LET n == ParseInt(id_list[1])
         IN  IF n.ok THEN IdReturn(n.val)
             ELSE IdRaise(Exc("ValueError", MsgIntLiteral))

OtiIdle == [pc |-> "idle", organism |-> "", return_raw |-> FALSE, verbose |-> FALSE,
            id_list |-> <<>>, out |-> IdPending]

OtiCall(organism, return_raw, verbose) ==
    [pc |-> "call", organism |-> organism, return_raw |-> return_raw,
     verbose |-> verbose, id_list |-> <<>>, out |-> IdPending]

\* organism_to_id up to the request: the optional print, then esearch_req,
\* which calls make_req(url, payload) with the default max_attempts and timeout
organism_to_id_esearch ==
    /\ oti.pc = "call"
    /\ stdout' = IF oti.verbose THEN stdout + 1 ELSE stdout
    /\ EnterMakeReq(DEFAULT_MAX_ATTEMPTS, DEFAULT_TIMEOUT)
    /\ oti' = [oti EXCEPT !.pc = "esearch"]
    /\ UNCHANGED <<self, ctor, etd, otd>>

\* make_req raised: the exception passes through esearch_req and organism_to_id
organism_to_id_req_raised ==
    /\ oti.pc = "esearch"
    /\ pc = "done"
    /\ req_out.kind = "raise"
    /\ oti' = [oti EXCEPT !.pc = "done", !.out = IdRaise(req_out.exc)]
    /\ LeaveMakeReq
    /\ UNCHANGED <<self, ctor, etd, otd, stdout>>

\* make_req returned: req = self.esearch_req(organism)
organism_to_id_req_returned ==
    /\ oti.pc = "esearch"
    /\ pc = "done"
    /\ req_out.kind = "return"
    /\ oti' = [oti EXCEPT !.pc = "json"]
    /\ LeaveMakeReq
    /\ UNCHANGED <<self, ctor, etd, otd, stdout>>

\* id_list is read from the response and judged
organism_to_id_result ==
    /\ oti.pc = "json"
    /\ \E id_list \in IdLists :
         oti' = [oti EXCEPT !.pc = "done", !.id_list = id_list,
                            !.out = IdListOutcome(id_list, oti.return_raw)]
    /\ UNCHANGED <<self, ctor, reqVars, etd, otd, stdout>>

-----------------------------------------------------------------------------
(* The XML document of the efetch endpoint                                 *)
(*                                                                         *)
(* Element.find returns the first child of that tag or None: an optional   *)
(* child is a sequence of length 0 (None) or 1.  A Taxon element is        *)
(* [Rank, ScientificName, TaxId, LineageEx], each optional; the text of    *)
(* TaxId is a string, LineageEx holds its Taxon children in document order.*)
(***************************************************************************)

MaxLineage == 2       \* LineageEx has at most MaxLineage Taxon children

RankTexts == {"clade", "genus"}
NameTexts == {"Foo bar"}
TaxIdTexts == {<<"2">>, <<"1", "2">>, <<"a">>}

Opt(S) == {<<>>} \cup {<<x>> : x \in S}

\* a Taxon inside LineageEx
LineageTaxa ==
    [Rank : Opt(RankTexts), ScientificName : Opt(NameTexts),
     TaxId : Opt(TaxIdTexts), LineageEx : {<<>>}]

\* the Taxon child of the root, with LineageEx of at most n children
RootTaxa(n) ==
    [Rank : Opt(RankTexts), ScientificName : Opt(NameTexts),
     TaxId : Opt(TaxIdTexts), LineageEx : Opt(SeqsUpTo(LineageTaxa, n))]

Documents(n) == [Taxon : Opt(RootTaxa(n))]

MsgNoFind == "'NoneType' object has no attribute 'find'"
MsgNoText == "'NoneType' object has no attribute 'text'"
MsgNoFindall == "'NoneType' object has no attribute 'findall'"

-----------------------------------------------------------------------------
(* parse_taxon_element and etree_to_dict *)

NoInfo == [sci_name |-> "", taxon_id |-> 0]

TaxonRaise(x) == [kind |-> "raise", rank |-> "", info |-> NoInfo, exc |-> x]

\* parse_taxon_element(taxon), where taxon is the result of a find: the
\* children are read in the order Rank, ScientificName, TaxId
parse_taxon_element(taxon) ==
    IF taxon = <<>> THEN TaxonRaise(Exc("AttributeError", MsgNoFind))
    ELSE IF taxon[1].Rank = <<>> THEN TaxonRaise(Exc("AttributeError", MsgNoText))
    ELSE IF taxon[1].ScientificName = <<>> THEN TaxonRaise(Exc("AttributeError", MsgNoText))
    ELSE IF taxon[1].TaxId = <<>> THEN TaxonRaise(Exc("AttributeError", MsgNoText))
    ELSE LET n == ParseInt(taxon[1].TaxId[1])
         IN  IF ~n.ok THEN TaxonRaise(Exc("ValueError", MsgIntLiteral))
             ELSE [kind |-> "return", rank |-> taxon[1].Rank[1],
                   info |-> [sci_name |-> taxon[1].ScientificName[1],
                             taxon_id |-> n.val],
                   exc |-> NoExc]

\* defaultdict(list): no key yet
EmptyLineage == [r \in {} |-> <<>>]

\* lineage[rank] = [info]: a dict of single entries
LineageAppend_Overwrite(lineage, rank, info) ==
    [r \in DOMAIN lineage \cup {rank} |-> IF r = rank THEN <<info>> ELSE lineage[r]]

\* lineage[rank].append(info)
LineageAppend(lineage, rank, info) ==
    [r \in DOMAIN lineage \cup {rank} |->
        IF r = rank
        THEN (IF rank \in DOMAIN lineage THEN Append(lineage[rank], info) ELSE <<info>>)
        ELSE lineage[r]]

\* lineage[r] of a defaultdict(list), without inserting
LineageGet(lineage, r) == IF r \in DOMAIN lineage THEN lineage[r] ELSE <<>>

\* for taxon in taxa: ... from the k-th taxon on; the first exception ends it
RECURSIVE LineageLoop(_, _, _)
LineageLoop(taxa, k, lineage) ==
    IF k > Len(taxa) THEN [kind |-> "return", lineage |-> lineage, exc |-> NoExc]
    ELSE LET t == parse_taxon_element(<<taxa[k]>>)
         IN  IF t.kind = "raise"
             THEN [kind |-> "raise", lineage |-> EmptyLineage, exc |-> t.exc]
             ELSE LineageLoop(taxa, k + 1, LineageAppend(lineage, t.rank, t.info))

NoRecord == [rank |-> "", sci_name |-> "", taxon_id |-> 0, lineage |-> EmptyLineage]

DictRaise(x) == [kind |-> "raise", value |-> NoRecord, exc |-> x]
DictPending == [kind |-> "none", value |-> NoRecord, exc |-> NoExc]

etree_to_dict(root) ==
    LET root_taxon == root.Taxon
        t == parse_taxon_element(root_taxon)
    IN  IF t.kind = "raise" THEN DictRaise(t.exc)
        ELSE IF root_taxon[1].LineageEx = <<>>
        THEN DictRaise(Exc("AttributeError", MsgNoFindall))
        ELSE LET l == LineageLoop(root_taxon[1].LineageEx[1], 1, EmptyLineage)
             IN  IF l.kind = "raise" THEN DictRaise(l.exc)
                 ELSE [kind |-> "return",
                       value |-> [rank |-> t.rank, sci_name |-> t.info.sci_name,
                                  taxon_id |-> t.info.taxon_id, lineage |-> l.lineage],
                       exc |-> NoExc]

EtdIdle == [pc |-> "idle", root |-> [Taxon |-> <<>>], out |-> DictPending]

\* a call etree_to_dict(root)
etree_to_dict_call ==
    /\ etd.pc = "call"
    /\ etd' = [etd EXCEPT !.pc = "done", !.out = etree_to_dict(etd.root)]
    /\ UNCHANGED <<self, ctor, reqVars, oti, otd, stdout>>

-----------------------------------------------------------------------------
(* organism_to_dict *)

MaxFetchLineage == 1  \* LineageEx of a fetched document: at most this many children

\* ET.fromstring(req.content): the documents the efetch endpoint returns
FetchedDocuments == Documents(MaxFetchLineage)

OtdIdle == [pc |-> "idle", organism |-> "", verbose |-> FALSE, taxid |-> IdPending,
            out |-> DictPending, calls |-> 0, first |-> DictPending,
            prev |-> [organism |-> "", verbose |-> FALSE]]

\* taxid = self.organism_to_id(organism, verbose): the second positional
\* parameter of organism_to_id is return_raw; its verbose keeps its default
organism_to_dict_id ==
    /\ otd.pc = "call"
    /\ oti' = OtiCall(otd.organism, otd.verbose, FALSE)
    /\ otd' = [otd EXCEPT !.pc = "organism_to_id"]
    /\ UNCHANGED <<self, ctor, reqVars, etd, stdout>>

\* organism_to_id raised
organism_to_dict_id_raised ==
    /\ otd.pc = "organism_to_id"
    /\ oti.pc = "done"
    /\ oti.out.kind = "raise"
    /\ otd' = [otd EXCEPT !.pc = "done", !.out = DictRaise(oti.out.exc)]
    /\ oti' = OtiIdle
    /\ UNCHANGED <<self, ctor, reqVars, etd, stdout>>

\* tree = self.etree_from_id(taxid): efetch_req(taxid) calls make_req(url,
\* payload) with the default max_attempts and timeout
organism_to_dict_efetch ==
    /\ otd.pc = "organism_to_id"
    /\ oti.pc = "done"
    /\ oti.out.kind = "return"
    /\ otd' = [otd EXCEPT !.pc = "efetch", !.taxid = oti.out]
    /\ oti' = OtiIdle
    /\ EnterMakeReq(DEFAULT_MAX_ATTEMPTS, DEFAULT_TIMEOUT)
    /\ UNCHANGED <<self, ctor, etd, stdout>>

\* make_req raised inside etree_from_id
organism_to_dict_req_raised ==
    /\ otd.pc = "efetch"
    /\ pc = "done"
    /\ req_out.kind = "raise"
    /\ otd' = [otd EXCEPT !.pc = "done", !.out = DictRaise(req_out.exc)]
    /\ LeaveMakeReq
    /\ UNCHANGED <<self, ctor, oti, etd, stdout>>

\* make_req returned: req = self.efetch_req(taxid)
organism_to_dict_req_returned ==
    /\ otd.pc = "efetch"
    /\ pc = "done"
    /\ req_out.kind = "return"
    /\ otd' = [otd EXCEPT !.pc = "fromstring"]
    /\ LeaveMakeReq
    /\ UNCHANGED <<self, ctor, oti, etd, stdout>>

\* the response is parsed and tax_dict = self.etree_to_dict(tree) returned
organism_to_dict_result ==
    /\ otd.pc = "fromstring"
    /\ \E tree \in FetchedDocuments :
         otd' = [otd EXCEPT !.pc = "done", !.out = etree_to_dict(tree)]
    /\ UNCHANGED <<self, ctor, reqVars, oti, etd, stdout>>

\* the caller calls organism_to_dict a second time on the same instance
organism_to_dict_again ==
    /\ otd.pc = "done"
    /\ otd.calls = 0
    /\ \E organism \in Organisms, verbose \in BOOLEAN :
         otd' = [pc |-> "call", organism |-> organism, verbose |-> verbose,
                 taxid |-> IdPending, out |-> DictPending, calls |-> 1,
                 first |-> otd.out,
                 prev |-> [organism |-> otd.organism, verbose |-> otd.verbose]]
    /\ UNCHANGED <<self, ctor, reqVars, oti, etd, stdout>>

-----------------------------------------------------------------------------
(* Specifications *)

ValidClient ==
    [alive |-> TRUE, email |-> Str(<<"a">>), tool |-> Str(<<"a">>),
     return_ranks |-> "None"]

CtorIdle == [pc |-> "done", email |-> Str(<<"a">>), tool |-> Str(<<"a">>),
             return_ranks |-> "None", exc |-> NoExc]

ReqIdle ==
    /\ pc = "idle"
    /\ i = 0
    /\ max_attempts = DEFAULT_MAX_ATTEMPTS
    /\ timeout = DEFAULT_TIMEOUT
    /\ e = NoExc
    /\ trace = <<>>
    /\ elapsed = 0
    /\ req_out = Pending

\* NCBI(email, tool, return_ranks) for every pair of values
InitInit ==
    /\ self = NoObject
    /\ ctor \in [pc : {"call"}, email : ParamValues, tool : ParamValues,
                 return_ranks : {"None", "RETURN_RANKS"}, exc : {NoExc}]
    /\ ReqIdle
    /\ oti = OtiIdle
    /\ etd = EtdIdle
    /\ otd = OtdIdle
    /\ stdout = 0

SpecInit == InitInit /\ [][NCBI_init]_vars

\* one call make_req(url, payload, max_attempts, timeout) on a client
ReqInit ==
    /\ self = ValidClient
    /\ ctor = CtorIdle
    /\ pc = "for"
    /\ i = 0
    /\ max_attempts \in -1..MaxAttempts
    /\ timeout \in 1..MaxTimeout
    /\ e = NoExc
    /\ trace = <<>>
    /\ elapsed = 0
    /\ req_out = Pending
    /\ oti = OtiIdle
    /\ etd = EtdIdle
    /\ otd = OtdIdle
    /\ stdout = 0

SpecReq == ReqInit /\ [][make_req]_vars

\* one call organism_to_id(organism, return_raw, verbose)
ResolveInit ==
    /\ self = ValidClient
    /\ ctor = CtorIdle
    /\ ReqIdle
    /\ \E organism \in Organisms, return_raw \in BOOLEAN, verbose \in BOOLEAN :
         oti = OtiCall(organism, return_raw, verbose)
    /\ etd = EtdIdle
    /\ otd = OtdIdle
    /\ stdout = 0

\* with the default max_attempts the loop of make_req is never exhausted
ResolveNext ==
    \/ organism_to_id_esearch
    \/ organism_to_id_req_raised
    \/ organism_to_id_req_returned
    \/ organism_to_id_result
    \/ make_req_for
    \/ make_req_get_ok
    \/ make_req_get_fail
    \/ make_req_sleep_interval
    \/ make_req_return
    \/ make_req_raise
    \/ make_req_retry

SpecResolve == ResolveInit /\ [][ResolveNext]_vars

\* one call etree_to_dict(root) for every document
ParseInit ==
    /\ self = ValidClient
    /\ ctor = CtorIdle
    /\ ReqIdle
    /\ oti = OtiIdle
    /\ etd \in [pc : {"call"}, root : Documents(MaxLineage), out : {DictPending}]
    /\ otd = OtdIdle
    /\ stdout = 0

SpecParse == ParseInit /\ [][etree_to_dict_call]_vars

\* two calls organism_to_dict(organism, verbose) in sequence on one client
FacadeInit ==
    /\ self = ValidClient
    /\ ctor = CtorIdle
    /\ ReqIdle
    /\ oti = OtiIdle
    /\ etd = EtdIdle
    /\ \E organism \in Organisms, verbose \in BOOLEAN :
         otd = [OtdIdle EXCEPT !.pc = "call", !.organism = organism,
                               !.verbose = verbose]
    /\ stdout = 0

FacadeNext ==
    \/ organism_to_dict_id
    \/ organism_to_dict_id_raised
    \/ organism_to_dict_efetch
    \/ organism_to_dict_req_raised
    \/ organism_to_dict_req_returned
    \/ organism_to_dict_result
    \/ organism_to_dict_again
    \/ ResolveNext

SpecFacade == FacadeInit /\ [][FacadeNext]_vars

-----------------------------------------------------------------------------
(* Properties of make_req (SpecReq) *)

IsGet(x) == x.ev \in {"get_ok", "get_fail"}
IsGetOk(x) == x.ev = "get_ok"
IsEffect(x) == x.ev # "print"

\* the GET attempts of the current call, in order
Gets == SelectSeq(trace, IsGet)

\* the number of successful GETs of the current call
Successes == Len(SelectSeq(trace, IsGetOk))

\* GETs, sleeps and the final return or raise of the current call
Effects == SelectSeq(trace, IsEffect)

AllFailed == \A p \in 1..Len(Gets) : Gets[p].ev = "get_fail"

\* C1: with max_attempts = n >= 0, if the first k <= n GETs fail and GET k+1
\* succeeds, make_req returns the response of GET k+1 without raising and
\* exactly k+1 GETs are issued; and make_req does not raise while at most n
\* GETs have failed, so that GET k+1 is issued.
C1_RetryUntilSuccess ==
    max_attempts >= 0 =>
        /\ \A p \in 1..Len(Gets) :
             Gets[p].ev = "get_ok" =>
                /\ Gets[p].n = p
                /\ p <= max_attempts + 1
                /\ \A q \in 1..(p - 1) : Gets[q].ev = "get_fail"
                /\ Len(Gets) = p
                /\ req_out.kind # "raise"
                /\ req_out.resp = p
                /\ (pc = "done" => req_out.kind = "return")
        /\ (req_out.kind = "raise" => Len(Gets) > max_attempts)

\* fail, fail, succeed with max_attempts = 2 has returned the third response
C1_Witness ==
    /\ pc = "done"
    /\ max_attempts = 2
    /\ Len(Gets) = 3
    /\ Gets[1].ev = "get_fail" /\ Gets[2].ev = "get_fail" /\ Gets[3].ev = "get_ok"
    /\ req_out.kind = "return"
    /\ req_out.resp = 3

\* C2: with max_attempts = n >= 0 never more than n+1 GETs are issued, and
\* if every GET fails, make_req ends with exactly n+1 GETs and raises the
\* exception of GET n+1, not the HTTPError that follows the loop.
C2_ExhaustedRaisesLast ==
    max_attempts >= 0 =>
        /\ Len(Gets) <= max_attempts + 1
        /\ (pc = "done" /\ AllFailed =>
              /\ Len(Gets) = max_attempts + 1
              /\ req_out.kind = "raise"
              /\ req_out.exc = e
              /\ req_out.exc.attempt = max_attempts + 1
              /\ req_out.exc.type \in TransportFailures
              /\ Effects[Len(Effects)] = Ev("raise", max_attempts + 1))

\* three failed GETs with max_attempts = 2 have raised the third failure
C2_Witness ==
    /\ pc = "done"
    /\ max_attempts = 2
    /\ AllFailed
    /\ Len(Gets) = 3
    /\ req_out.kind = "raise"
    /\ req_out.exc.attempt = 3

\* C8: a failed GET that is not the last allowed one is followed by exactly
\* one 1-second sleep and then the next GET; the last allowed failed GET is
\* followed by the raise with no sleep; a successful GET is followed by
\* exactly one 0.5-second sleep and then the return.
C8_SleepOrder ==
    LET E == Effects
        n == Len(E)
    IN  \A p \in 1..n :
          /\ (E[p].ev = "get_fail" /\ E[p].n <= max_attempts =>
                /\ (p < n => E[p + 1] = Ev("sleep", Second))
                /\ (p + 1 < n => IsGet(E[p + 2]) /\ E[p + 2].n = E[p].n + 1)
                /\ (pc = "done" => p + 1 < n))
          /\ (E[p].ev = "get_fail" /\ E[p].n = max_attempts + 1 =>
                /\ (p < n => E[p + 1] = Ev("raise", E[p].n) /\ p + 1 = n)
                /\ (pc = "done" => p < n))
          /\ (E[p].ev = "get_ok" =>
                /\ (p < n => E[p + 1] = Ev("sleep", SLEEP_INTERVAL))
                /\ (p + 1 < n => E[p + 2] = Ev("return", E[p].n) /\ p + 2 = n)
                /\ (pc = "done" => p + 1 < n))
          /\ (IsGet(E[p]) /\ p < n => ~IsGet(E[p + 1]))
          /\ (E[p].ev = "return" =>
                /\ p > 2
                /\ E[p - 1] = Ev("sleep", SLEEP_INTERVAL)
                /\ E[p - 2] = Ev("get_ok", E[p].n))

\* a call that failed once, slept a second, succeeded, slept and returned
C8_Witness ==
    /\ pc = "done"
    /\ Effects = <<Ev("get_fail", 1), Ev("sleep", Second), Ev("get_ok", 2),
                   Ev("sleep", SLEEP_INTERVAL), Ev("return", 2)>>

\* C10 as stated: the time inside one call never exceeds
\* max_attempts * (timeout + 1) + successes * 0.5 seconds.
C10_LatencyBound_Stated ==
    max_attempts >= 0 =>
        elapsed <= max_attempts * (timeout * Second + Second)
                   + Successes * SLEEP_INTERVAL

\* C10 (amended): the time inside one call never exceeds
\* (max_attempts + 1) * timeout + max_attempts * 1 + successes * 0.5 seconds.
C10_LatencyBound ==
    max_attempts >= 0 =>
        elapsed <= (max_attempts + 1) * timeout * Second
                   + max_attempts * Second
                   + Successes * SLEEP_INTERVAL

\* the bound is met: every GET blocked for the whole timeout, every retry was
\* used, and the last GET succeeded
C10_Witness ==
    /\ pc = "done"
    /\ max_attempts >= 1
    /\ req_out.kind = "return"
    /\ elapsed = (max_attempts + 1) * timeout * Second + max_attempts * Second
                 + SLEEP_INTERVAL

-----------------------------------------------------------------------------
(* Properties of the constructor (SpecInit) *)

\* a whitespace character with a non-whitespace character somewhere before
\* it and somewhere after it
HasInternalWhitespace(s) ==
    \E a, b, c \in 1..Len(s) :
        a < b /\ b < c /\ ~IsSpace(s[a]) /\ IsSpace(s[b]) /\ ~IsSpace(s[c])

\* the same for the space character alone
HasInternalSpace(s) ==
    \E a, b, c \in 1..Len(s) :
        a < b /\ b < c /\ ~IsSpace(s[a]) /\ s[b] = " " /\ ~IsSpace(s[c])

ConstructionFailed == ctor.pc = "done" /\ ctor.exc.type = "ValueError"

\* construction succeeded and the client holds the values it was given
ConstructionSucceeded ==
    /\ ctor.pc = "done"
    /\ ctor.exc = NoExc
    /\ self.alive
    /\ self.email = ctor.email
    /\ self.tool = ctor.tool

\* C5 as stated: construction fails iff email or tool is no string or has
\* internal whitespace; otherwise it succeeds and stores the values unaltered.
C5_InvalidConfig_Stated ==
    ctor.pc = "done" =>
        IF \E v \in {ctor.email, ctor.tool} :
              v.type # "str" \/ HasInternalWhitespace(v.val)
        THEN ConstructionFailed /\ ~self.alive
        ELSE ConstructionSucceeded

\* C5 (amended): construction fails with ValueError iff email or tool is no
\* string or has an internal space character (' '); otherwise (other internal
\* whitespace included) it succeeds and stores the values unaltered.
C5_InvalidConfig ==
    ctor.pc = "done" =>
        IF \E v \in {ctor.email, ctor.tool} :
              v.type # "str" \/ HasInternalSpace(v.val)
        THEN ConstructionFailed /\ ~self.alive
        ELSE ConstructionSucceeded

\* a client constructed with an email that has a tab between two letters
\* and a tool that ends with a space, both stored as given
C5_Witness ==
    /\ ConstructionSucceeded
    /\ HasInternalWhitespace(self.email.val)
    /\ Len(self.tool.val) > 1
    /\ self.tool.val[Len(self.tool.val)] = " "

-----------------------------------------------------------------------------
(* Properties of etree_to_dict (SpecParse) *)

CompleteTaxon(t) ==
    /\ t.Rank # <<>>
    /\ t.ScientificName # <<>>
    /\ t.TaxId # <<>>
    /\ \A k \in 1..Len(t.TaxId[1]) : IsDecimalChar(t.TaxId[1][k])
    /\ t.TaxId[1] # <<>>

\* the LineageEx children of the root taxon of a document that has them
Ancestors(root) == root.Taxon[1].LineageEx[1]

\* every expected element is there and every TaxId is a decimal number
WellFormed(root) ==
    /\ root.Taxon # <<>>
    /\ CompleteTaxon(root.Taxon[1])
    /\ root.Taxon[1].LineageEx # <<>>
    /\ \A k \in 1..Len(Ancestors(root)) : CompleteTaxon(Ancestors(root)[k])

\* the positions of the ancestors of rank r, as a set
PositionsOfRank(root, r) ==
    {k \in 1..Len(Ancestors(root)) : Ancestors(root)[k].Rank[1] = r}

\* the decimal number a digit string writes, digit by digit
RECURSIVE Pow10(_)
Pow10(n) == IF n = 0 THEN 1 ELSE 10 * Pow10(n - 1)

RECURSIVE NumberOf(_)
NumberOf(s) ==
    IF s = <<>> THEN 0
    ELSE (IF Head(s) = "1" THEN 1 ELSE 2) * Pow10(Len(s) - 1) + NumberOf(Tail(s))

InfoOf(t) == [sci_name |-> t.ScientificName[1], taxon_id |-> NumberOf(t.TaxId[1])]

MissingElements(root) ==
    IF root.Taxon = <<>> THEN {"Taxon"}
    ELSE LET t == root.Taxon[1]
             anc == IF t.LineageEx = <<>> THEN <<>> ELSE t.LineageEx[1]
         IN  {x \in {"Rank"} : t.Rank = <<>>}
             \cup {x \in {"ScientificName"} : t.ScientificName = <<>>}
             \cup {x \in {"TaxId"} : t.TaxId = <<>>}
             \cup {x \in {"LineageEx"} : t.LineageEx = <<>>}
             \cup {x \in {"LineageEx/Taxon/Rank"} :
                     \E k \in 1..Len(anc) : anc[k].Rank = <<>>}
             \cup {x \in {"LineageEx/Taxon/ScientificName"} :
                     \E k \in 1..Len(anc) : anc[k].ScientificName = <<>>}
             \cup {x \in {"LineageEx/Taxon/TaxId"} :
                     \E k \in 1..Len(anc) : anc[k].TaxId = <<>>}

\* the error kind of a malformed response: the class organism_to_id raises
\* for an id that is no decimal number
IsMalformedResponse(exc) == exc.type = "ValueError"

\* C7: for a document that lacks an expected element etree_to_dict raises
\* the MalformedResponse error kind and returns no record, and the error
\* identifies the missing element: a document that lacks only a different
\* element gets a different error.
C7_MissingElement ==
    etd.pc = "done" /\ MissingElements(etd.root) # {} =>
        /\ etd.out.kind = "raise"
        /\ etd.out.value = NoRecord
        /\ IsMalformedResponse(etd.out.exc)
        /\ \A other \in Documents(0) :
             /\ Cardinality(MissingElements(etd.root)) = 1
             /\ Cardinality(MissingElements(other)) = 1
             /\ MissingElements(other) # MissingElements(etd.root)
             => etree_to_dict(other).exc # etd.out.exc

-----------------------------------------------------------------------------
(* Properties of organism_to_id (SpecResolve) *)

\* the id list was read from a response (make_req did not raise)
IdListRead == oti.pc = "done" /\ ~(oti.out.kind = "raise" /\ oti.out.exc.attempt > 0)

AllDecimal(s) == s # <<>> /\ \A k \in 1..Len(s) : IsDecimalChar(s[k])

\* the three failures of organism_to_id, by the raise statement
NoMatch == Exc("ValueError", MsgNoIds)
Ambiguous == Exc("ValueError", MsgManyIds)
MalformedResponse == Exc("ValueError", MsgNotDecimal)

\* C3: with return_raw false the id list decides the outcome: empty fails
\* with NoMatch, more than one id fails with Ambiguous, one id that is not
\* all decimal digits fails with MalformedResponse, one all-digit id is
\* returned as an integer; the three failures are distinct.
C3_FourOutcomes ==
    IdListRead /\ ~oti.return_raw =>
        LET l == oti.id_list
            o == oti.out
        IN  /\ (l = <<>> => o.kind = "raise" /\ o.exc = NoMatch)
            /\ (Len(l) > 1 => o.kind = "raise" /\ o.exc = Ambiguous)
            /\ (Len(l) = 1 /\ ~AllDecimal(l[1]) =>
                    o.kind = "raise" /\ o.exc = MalformedResponse)
            /\ (Len(l) = 1 /\ AllDecimal(l[1]) =>
                    o.kind = "return" /\ ~o.is_raw /\ o.int = NumberOf(l[1]))
            /\ Cardinality({NoMatch, Ambiguous, MalformedResponse}) = 3

-----------------------------------------------------------------------------
(* Properties of organism_to_dict (SpecFacade) *)

\* C4: when a name is resolved a second time on the same client (verbose
\* left at its default both times), the second call issues no GET and
\* returns the record the first call returned.
C4_Memoized ==
    /\ otd.calls = 1
    /\ otd.prev = [organism |-> otd.organism, verbose |-> FALSE]
    /\ ~otd.verbose
    /\ otd.first.kind = "return"
    =>
        /\ Len(Gets) = 0
        /\ (otd.pc = "done" => otd.out = otd.first)

\* C9: organism_to_dict passes an integer taxon id to etree_from_id whatever
\* verbose is, and a verbose call fails where organism_to_id without
\* return_raw fails on the same id list.
C9_VerboseOnlyPrints ==
    otd.pc \in {"efetch", "fromstring"} =>
        /\ ~otd.taxid.is_raw
        /\ (otd.taxid.is_raw => IdListOutcome(otd.taxid.raw, FALSE).kind = "return")

====
